---- MODULE Spec2Model ----
(***************************************************************************)
(* The JNI bridge of fcitx5-android (app/src/main/cpp/native-lib.cpp):     *)
(* the four process-wide globals p_instance, p_dispatcher, p_frontend and  *)
(* p_uuid, startupFcitx running the engine's event loop on the calling     *)
(* thread, and the guarded operations called from other host threads.      *)
(* Every access to a global is one step, so that the threads interleave    *)
(* exactly where the code reads or writes shared memory.  The four          *)
(* callbacks that turn the addon's payloads into handleFcitxEvent calls and *)
(* the logger thread share no state with the handle and are followed by     *)
(* specifications of their own, MarshalSpec and RelaySpec.                  *)
(***************************************************************************)
EXTENDS Integers, Sequences, FiniteSets, TLC

\* ------------------------------------------------------------------ bounds
\* startupFcitx calls made in one behaviour (each creates at most one run)
MaxStartups == 2
\* guarded-operation calls made in one behaviour
MaxCalls == 2
\* notifications the addon produces in one behaviour
MaxNotes == 1
\* the same two, in the behaviours where two threads call startupFcitx
RaceCalls == 1
RaceNotes == 0
\* the same three, in the behaviours checked for progress
LiveStartups == 1
LiveCalls == 1
LiveNotes == 1

\* bytes of the longest string the addon passes to a callback
MaxStrLen == 2
\* strings of the longest candidate list the addon passes
MaxCands == 2
\* bytes written to stdout and stderr in one behaviour
MaxStream == 4

\* ----------------------------------------------------------------- threads
\* host threads that call startupFcitx
Starters == {"s1", "s2"}
\* host threads that call the guarded operations
Hosts == {"h1", "h2"}
Threads == Starters \cup Hosts

\* the guarded operations (native-lib.cpp 174-231)
Ops == {"exit", "keyS", "keyC", "select", "isEmpty", "reset"}
\* the operations that schedule a work item
SchedOps == Ops \ {"isEmpty"}

\* object identities: run r creates instance r, dispatcher r, addon r and
\* its input context's uuid r; 0 is nullptr (and the zero ICUUID)
Ids == 1..MaxStartups
Null == 0
\* the values Instance::exec() can return
ExitCodes == {0, 1, 2}
\* no status: the call has not returned
NoStatus == -1
\* the value of a local that was never assigned, or of a call that went wrong
Garbage == -2
\* the four notification kinds passed to handleFcitxEvent
Kinds == {0, 1, 2, 3}
NoItem == [id |-> 0, kind |-> "none", by |-> "none"]
NoUb == <<"none", "none">>

\* what the host does in a behaviour: "serial", one thread calls
\* startupFcitx (again and again); "race", two threads call it; "live", one
\* thread calls it, within the smaller bounds of the progress check.
\* Two parts of the file are independent of the handle and are followed on
\* their own: "marshal", the four callbacks turning the addon's payloads
\* into handleFcitxEvent calls, and "relay", the logger thread.
Scenarios == {"serial", "race"}

\* the bytes of the strings the addon produces: 'a', 'b' and NUL
NUL == 0
Chars == {NUL, 97, 98}
\* the bytes written to stdout: 'h' and '\n'
NL == 10
LogBytes == {104, NL}
\* char buf[128]  (line 19)
BufSize == 128
\* vararg's elements after NewObjectArray(size, stringClass, nullptr)
NullRef == <<"null">>
\* no notification yet
NoNote == [kind |-> -1]

VARIABLES
    scenario,       \* the host's use of the library in this behaviour
    p_instance,     \* std::unique_ptr<fcitx::Instance>        (line 46)
    p_dispatcher,   \* std::unique_ptr<fcitx::EventDispatcher> (line 47)
    p_frontend,     \* std::unique_ptr<fcitx::AddonInstance>   (line 48)
    p_uuid,         \* fcitx::ICUUID                           (line 49)
    liveInst,       \* instances constructed and not yet destroyed
    liveDisp,       \* dispatchers constructed and not yet destroyed
    addonLoaded,    \* instances whose addons were loaded (exec() initialised them)
    addonDestroyed, \* per addon: how many times it was deleted
    ics,            \* addons on which createInputContext was called
    attached,       \* per dispatcher: the instance whose loop it is attached to
    queue,          \* per dispatcher: the scheduled work items, oldest first
    callbacks,      \* per addon: the notification kinds with a callback set
    cbOwner,        \* per addon: the startup call whose frame the callbacks capture
    exitReq,        \* instances on which exit() was called
    env,            \* the process environment written by setenv
    pc,             \* per thread: the line it is at
    op,             \* per host thread: the operation it called last
    res,            \* per host thread: what that operation returned
    run,            \* per starter: the identity of the objects its call creates
    loop,           \* per starter: the instance whose exec() it is inside
    cur,            \* per starter: the work item its loop is executing
    af,             \* per starter: the init item's local `androidfrontend` (line 141)
    uuidTmp,        \* per starter: the init item's local `uuid` (line 146)
    how,            \* per starter: how its call ended
    ret,            \* per starter: the status its last call returned
    code,           \* per starter: the local `code` (line 152)
    nextRun,        \* the next object identity
    nextItem,       \* the next work item identity
    startups,       \* startupFcitx calls made so far
    calls,          \* guarded-operation calls made so far
    notes,          \* notifications the addon produced so far
    accepted,       \* work items schedule() accepted
    execCount,      \* per work item: how many times it was executed
    execBy,         \* per work item: the thread that executed it
    dropped,        \* work items destroyed with their queue, never executed
    frontCalls,     \* the calls made to the frontend addon
    hostEvents,     \* the calls made to handleFcitxEvent, oldest first
    ubLog,          \* the latest undefined behaviour: <<thread, what>>
    crashed,        \* the process died
    payload,        \* the notification the addon passed to the callback
    vararg,         \* the callback's local jobjectArray `vararg`
    argi,           \* candidateListCallback's local `i` (line 103)
    cbpc,           \* the line the callback is at
    received,       \* the handleFcitxEvent calls made by the callback
    written,        \* the bytes written to stdout and stderr so far
    pipe,           \* the bytes in the pipe pfd, not yet read
    logSink         \* the entries passed to __android_log_write

handle == <<p_instance, p_dispatcher, p_frontend, p_uuid>>
objects == <<liveInst, liveDisp, addonLoaded, addonDestroyed, ics, attached,
             queue, callbacks, cbOwner, exitReq>>
locals == <<op, res, run, loop, cur, af, uuidTmp, how, ret, code>>
counters == <<nextRun, nextItem, startups, calls, notes>>
history == <<accepted, execCount, execBy, dropped, frontCalls, hostEvents>>
\* the state of startupFcitx and the guarded operations
bridge == <<handle, objects, env, pc, locals, counters, history, ubLog, crashed>>
\* the state of a callback (lines 100-125)
marshal == <<payload, vararg, argi, cbpc, received>>
\* the state of the log relay (lines 14-40)
relay == <<written, pipe, logSink>>
\* what startupFcitx and the guarded operations never touch
aside == <<scenario, marshal, relay>>
vars == <<aside, bridge>>

ItemIds == 1..(MaxStartups + MaxCalls)

\* the three path arguments of each starter's call (lines 70, 79-81)
Args(t) ==
    IF t = "s1"
    THEN [appData |-> "/data/app", appLib |-> "/data/app/lib", extData |-> "/data/ext"]
    ELSE [appData |-> "/data/app2", appLib |-> "/data/app2/lib", extData |-> "/data/ext2"]

\* std::string(app_data) + "/fcitx5/libime" (line 82)
LibimeData(a) == <<a.appData, "/fcitx5/libime">>

\* the environment after lines 77-91
EnvFor(a) ==
    [SKIP_FCITX_PATH |-> <<"true">>,
     HOME |-> <<a.extData>>,
     XDG_DATA_DIRS |-> <<a.appData>>,
     XDG_CONFIG_HOME |-> <<a.extData>>,
     XDG_DATA_HOME |-> <<a.extData>>,
     FCITX_ADDON_DIRS |-> <<a.appLib>>,
     LIBIME_MODEL_DIRS |-> LibimeData(a),
     LIBIME_INSTALL_PKGDATADIR |-> LibimeData(a)]

NoEnv == [SKIP_FCITX_PATH |-> <<>>, HOME |-> <<>>, XDG_DATA_DIRS |-> <<>>,
          XDG_CONFIG_HOME |-> <<>>, XDG_DATA_HOME |-> <<>>,
          FCITX_ADDON_DIRS |-> <<>>, LIBIME_MODEL_DIRS |-> <<>>,
          LIBIME_INSTALL_PKGDATADIR |-> <<>>]

\* the process after JNI_OnLoad, before any call (lines 46-49)
Start ==
    /\ p_instance = Null
    /\ p_dispatcher = Null
    /\ p_frontend = Null
    /\ p_uuid = Null
    /\ liveInst = {}
    /\ liveDisp = {}
    /\ addonLoaded = {}
    /\ addonDestroyed = [r \in Ids |-> 0]
    /\ ics = {}
    /\ attached = [r \in Ids |-> Null]
    /\ queue = [r \in Ids |-> <<>>]
    /\ callbacks = [r \in Ids |-> {}]
    /\ cbOwner = [r \in Ids |-> "none"]
    /\ exitReq = {}
    /\ env = NoEnv
    /\ pc = [t \in Threads |-> "idle"]
    /\ op = [t \in Hosts |-> "none"]
    /\ res = [t \in Hosts |-> "none"]
    /\ run = [t \in Starters |-> Null]
    /\ loop = [t \in Starters |-> Null]
    /\ af = [t \in Starters |-> Null]
    /\ cur = [t \in Starters |-> NoItem]
    /\ uuidTmp = [t \in Starters |-> Null]
    /\ how = [t \in Starters |-> "none"]
    /\ ret = [t \in Starters |-> NoStatus]
    /\ code = [t \in Starters |-> Garbage]
    /\ nextRun = 1
    /\ nextItem = 1
    /\ startups = 0
    /\ calls = 0
    /\ notes = 0
    /\ accepted = {}
    /\ execCount = [i \in ItemIds |-> 0]
    /\ execBy = [i \in ItemIds |-> "none"]
    /\ dropped = {}
    /\ frontCalls = {}
    /\ hostEvents = <<>>
    /\ ubLog = NoUb
    /\ crashed = FALSE
    /\ payload = NoNote
    /\ vararg = <<>>
    /\ argi = 0
    /\ cbpc = "idle"
    /\ received = <<>>
    /\ written = <<>>
    /\ pipe = <<>>
    /\ logSink = <<>>

Init == scenario \in Scenarios /\ Start

\* the initial state of the progress check
LiveInit == scenario = "live" /\ Start
\* the initial states of the callbacks and of the log relay on their own
MarshalInit == scenario = "marshal" /\ Start
RelayInit == scenario = "relay" /\ Start

\* -------------------------------------------------------------- helpers
\* the host thread t may call startupFcitx
MayStart(t) == t = "s1" \/ scenario = "race"
StartupBudget == IF scenario = "live" THEN LiveStartups ELSE MaxStartups
CallBudget ==
    CASE scenario = "race" -> RaceCalls
      [] scenario = "live" -> LiveCalls
      [] OTHER -> MaxCalls
NoteBudget ==
    CASE scenario = "race" -> RaceNotes
      [] scenario = "live" -> LiveNotes
      [] OTHER -> MaxNotes
\* the host threads are interchangeable: a call is made on the first one
\* that is not inside a call
FirstIdle(t) == t = "h1" \/ pc["h1"] # "idle"

Min(a, b) == IF a < b THEN a ELSE b

\* the identities of the items of a queue
IdsOf(q) == {q[k].id : k \in 1..Len(q)}

\* a starter is inside startupFcitx, past the already-running check
PastCheck(t) == pc[t] # "idle"

\* a starter is inside p_instance->exec() (line 152)
ExecLines == {"exec", "L135", "L146", "L147", "L148", "L180", "L181", "L193"}
InExec(t) == pc[t] \in ExecLines

\* Undefined behaviour at thread t (a dereference of a null or dangling
\* pointer, a double delete, two threads inside one event loop): the process
\* dies, or the operation has no visible effect and t goes on at `next`.
Undefined(t, what, next) ==
    /\ ubLog' = <<t, what>>
    /\ \/ crashed' = TRUE /\ pc' = pc
       \/ crashed' = FALSE /\ pc' = [pc EXCEPT ![t] = next]

\* ~Instance(): the instance destroys the addons its addon manager loaded
AddonsAfterInstance(old) ==
    IF old # Null /\ old \in addonLoaded
    THEN [addonDestroyed EXCEPT ![old] = Min(@ + 1, 2)]
    ELSE addonDestroyed

\* delete of the AddonInstance a unique_ptr<AddonInstance> owns
AddonsAfterDelete(old) ==
    IF old # Null
    THEN [addonDestroyed EXCEPT ![old] = Min(@ + 1, 2)]
    ELSE addonDestroyed

\* some addon was deleted a second time
DoubleDelete(after) == \E r \in Ids : after[r] = 2 /\ addonDestroyed[r] < 2

\* --------------------------------------------------------- startupFcitx
\* a host thread calls startupFcitx (line 70):
\* if (p_instance != nullptr) return 2;  (lines 71-75), and then the eight
\* setenv calls (lines 77-95), which no other line of the file reads
StartupCheck(t) ==
    /\ ~crashed
    /\ pc[t] = "idle"
    /\ MayStart(t)
    /\ startups < StartupBudget
    /\ startups' = startups + 1
    /\ IF p_instance # Null
       THEN /\ pc' = pc
            /\ ret' = [ret EXCEPT ![t] = 2]
            /\ how' = [how EXCEPT ![t] = "rejected"]
            /\ env' = env
       ELSE /\ pc' = [pc EXCEPT ![t] = "L129"]
            /\ ret' = [ret EXCEPT ![t] = NoStatus]
            /\ how' = [how EXCEPT ![t] = "none"]
            /\ env' = EnvFor(Args(t))
    /\ UNCHANGED <<aside, handle, objects, op, res, run, loop, cur, af,
                   uuidTmp, code, nextRun, nextItem, calls, notes, history,
                   ubLog, crashed>>

\* p_instance = std::make_unique<fcitx::Instance>(...)  (line 129): the
\* assignment destroys the instance p_instance owned before, if any; then
\* p_instance->addonManager().registerDefaultLoader(nullptr)  (line 130)
MakeInstance(t) ==
    /\ ~crashed
    /\ pc[t] = "L129"
    /\ LET old == p_instance
           after == AddonsAfterInstance(old)
       IN /\ p_instance' = nextRun
          /\ run' = [run EXCEPT ![t] = nextRun]
          /\ nextRun' = nextRun + 1
          /\ liveInst' = (liveInst \ {old}) \cup {nextRun}
          /\ addonDestroyed' = after
          /\ IF DoubleDelete(after)
             THEN Undefined(t, "double delete", "L131")
             ELSE /\ pc' = [pc EXCEPT ![t] = "L131"]
                  /\ UNCHANGED <<ubLog, crashed>>
    /\ UNCHANGED <<aside, p_dispatcher, p_frontend, p_uuid, liveDisp,
                   addonLoaded, ics, attached, queue, callbacks, cbOwner,
                   exitReq, env, op, res, loop, cur, af, uuidTmp, how, ret,
                   code, nextItem, startups, calls, notes, history>>

\* p_dispatcher = std::make_unique<fcitx::EventDispatcher>()  (line 131): the
\* assignment destroys the dispatcher p_dispatcher owned before, and with it
\* the work items still in its queue; then
\* p_dispatcher->attach(&p_instance->eventLoop())  (line 132)
MakeDispatcher(t) ==
    /\ ~crashed
    /\ pc[t] = "L131"
    /\ LET old == p_dispatcher
           new == run[t]
       IN /\ p_dispatcher' = new
          /\ liveDisp' = (liveDisp \ {old}) \cup {new}
          /\ dropped' = IF old # Null THEN dropped \cup IdsOf(queue[old])
                        ELSE dropped
          /\ queue' = IF old # Null THEN [queue EXCEPT ![old] = <<>>] ELSE queue
          /\ IF p_instance = Null
             THEN /\ Undefined(t, "null p_instance", "L134")
                  /\ attached' = IF old # Null
                                 THEN [attached EXCEPT ![old] = Null]
                                 ELSE attached
             ELSE /\ attached' = IF old # Null
                                 THEN [attached EXCEPT ![old] = Null,
                                                       ![new] = p_instance]
                                 ELSE [attached EXCEPT ![new] = p_instance]
                  /\ pc' = [pc EXCEPT ![t] = "L134"]
                  /\ UNCHANGED <<ubLog, crashed>>
    /\ UNCHANGED <<aside, p_instance, p_frontend, p_uuid, liveInst,
                   addonLoaded, addonDestroyed, ics, callbacks, cbOwner, exitReq,
                   env, locals, counters, accepted, execCount, execBy,
                   frontCalls, hostEvents>>

\* schedule() putting the new item at the head of the queue
Schedule_AtHead(d, item) ==
    /\ queue' = [queue EXCEPT ![d] = <<item>> \o @]
    /\ accepted' = accepted \cup {item.id}
    /\ nextItem' = nextItem + 1

\* EventDispatcher::schedule: the item joins the queue's tail
Schedule(d, item) ==
    /\ queue' = [queue EXCEPT ![d] = Append(@, item)]
    /\ accepted' = accepted \cup {item.id}
    /\ nextItem' = nextItem + 1

\* p_dispatcher->schedule([&](){ ... })  (line 134): the initialisation item
ScheduleInit(t) ==
    /\ ~crashed
    /\ pc[t] = "L134"
    /\ IF p_dispatcher = Null
       THEN /\ Undefined(t, "null p_dispatcher", "L152")
            /\ UNCHANGED <<queue, accepted, nextItem>>
       ELSE /\ Schedule(p_dispatcher, [id |-> nextItem, kind |-> "init", by |-> t])
            /\ pc' = [pc EXCEPT ![t] = "L152"]
            /\ UNCHANGED <<ubLog, crashed>>
    /\ UNCHANGED <<aside, handle, liveInst, liveDisp, addonLoaded, addonDestroyed, ics,
                   attached, callbacks, cbOwner, exitReq, env, locals, nextRun,
                   startups, calls, notes, execCount, execBy, dropped,
                   frontCalls, hostEvents>>

\* -------------------------------------------- the event loop (line 152)
\* int code = p_instance->exec(): the calling thread becomes the event
\* thread of the instance p_instance points to at the call
StartExec(t) ==
    /\ ~crashed
    /\ pc[t] = "L152"
    /\ IF p_instance = Null
       THEN /\ Undefined(t, "null p_instance", "L53")
            /\ how' = [how EXCEPT ![t] = "normal"]
            /\ UNCHANGED <<code, loop, addonLoaded>>
       ELSE IF \E u \in Starters \ {t} : InExec(u) /\ loop[u] = p_instance
       THEN /\ Undefined(t, "two threads in one event loop", "L53")
            /\ how' = [how EXCEPT ![t] = "normal"]
            /\ UNCHANGED <<code, loop, addonLoaded>>
       ELSE /\ loop' = [loop EXCEPT ![t] = p_instance]
            /\ addonLoaded' = addonLoaded \cup {p_instance}
            /\ pc' = [pc EXCEPT ![t] = "exec"]
            /\ UNCHANGED <<how, code, ubLog, crashed>>
    /\ UNCHANGED <<aside, handle, liveInst, liveDisp, addonDestroyed, ics, attached,
                   queue, callbacks, cbOwner, exitReq, env, op, res, run, cur,
                   af, uuidTmp, ret, counters, history>>

\* the instance was destroyed by another thread while t runs its loop
LoopGone(t) ==
    /\ ~crashed
    /\ pc[t] = "exec"
    /\ loop[t] \notin liveInst
    /\ Undefined(t, "instance destroyed under exec", "L53")
    /\ UNCHANGED code
    /\ how' = [how EXCEPT ![t] = "normal"]
    /\ loop' = [loop EXCEPT ![t] = Null]
    /\ UNCHANGED <<aside, handle, objects, env, op, res, run, cur, af, uuidTmp, ret,
                   counters, history>>

\* the first line of a work item's body
FirstLine(kind) ==
    CASE kind = "init" -> "L135"
      [] kind = "exit" -> "L180"
      [] OTHER -> "L193"

\* the dispatcher attached to the loop hands its oldest item to the event
\* thread, which starts executing it
Dispatch(t) ==
    /\ ~crashed
    /\ pc[t] = "exec"
    /\ loop[t] \in liveInst
    /\ loop[t] \notin exitReq
    /\ \E d \in liveDisp :
          /\ attached[d] = loop[t]
          /\ queue[d] # <<>>
          /\ LET item == Head(queue[d])
             IN /\ queue' = [queue EXCEPT ![d] = Tail(@)]
                /\ cur' = [cur EXCEPT ![t] = item]
                /\ execCount' = [execCount EXCEPT ![item.id] = @ + 1]
                /\ execBy' = [execBy EXCEPT ![item.id] = t]
                /\ pc' = [pc EXCEPT ![t] = FirstLine(item.kind)]
    /\ UNCHANGED <<aside, handle, liveInst, liveDisp, addonLoaded, addonDestroyed, ics,
                   attached, callbacks, cbOwner, exitReq, env, op, res, run,
                   loop, af, uuidTmp, how, ret, code, counters, accepted,
                   dropped, frontCalls, hostEvents, ubLog, crashed>>

\* exec() returns after exit() was requested  (line 152, then 153)
ExecReturn(t) ==
    /\ ~crashed
    /\ pc[t] = "exec"
    /\ loop[t] \in liveInst
    /\ loop[t] \in exitReq
    /\ \E c \in ExitCodes : code' = [code EXCEPT ![t] = c]
    /\ how' = [how EXCEPT ![t] = "normal"]
    /\ loop' = [loop EXCEPT ![t] = Null]
    /\ pc' = [pc EXCEPT ![t] = "L53"]
    /\ UNCHANGED <<aside, handle, objects, env, op, res, run, cur, af, uuidTmp, ret,
                   counters, history, ubLog, crashed>>

\* exec() throws fcitx::InstanceQuietQuit  (line 155, then 162)
ThrowQuietQuit(t) ==
    /\ ~crashed
    /\ pc[t] = "exec"
    /\ loop[t] \in liveInst
    /\ how' = [how EXCEPT ![t] = "quiet"]
    /\ loop' = [loop EXCEPT ![t] = Null]
    /\ pc' = [pc EXCEPT ![t] = "L53"]
    /\ UNCHANGED <<aside, handle, objects, env, op, res, run, cur, af, uuidTmp, ret,
                   code, counters, history, ubLog, crashed>>

\* exec() throws another std::exception  (lines 156-159)
ThrowException(t) ==
    /\ ~crashed
    /\ pc[t] = "exec"
    /\ loop[t] \in liveInst
    /\ how' = [how EXCEPT ![t] = "error"]
    /\ loop' = [loop EXCEPT ![t] = Null]
    /\ pc' = [pc EXCEPT ![t] = "L53"]
    /\ UNCHANGED <<aside, handle, objects, env, op, res, run, cur, af, uuidTmp, ret,
                   code, counters, history, ubLog, crashed>>

\* ------------------------------------------- the initialisation work item
\* lines 135-145: the default group, then the four callbacks are set on the
\* androidfrontend addon of the instance p_instance points to
InitCallbacks(t) ==
    /\ ~crashed
    /\ pc[t] = "L135"
    /\ IF p_instance = Null
       THEN /\ Undefined(t, "null p_instance", "exec")
            /\ cur' = [cur EXCEPT ![t] = NoItem]
            /\ UNCHANGED <<callbacks, cbOwner, af>>
       ELSE /\ af' = [af EXCEPT ![t] = p_instance]
            /\ callbacks' = [callbacks EXCEPT ![p_instance] = Kinds]
            /\ cbOwner' = [cbOwner EXCEPT ![p_instance] = cur[t].by]
            /\ pc' = [pc EXCEPT ![t] = "L146"]
            /\ UNCHANGED <<cur, ubLog, crashed>>
    /\ UNCHANGED <<aside, handle, liveInst, liveDisp, addonLoaded, addonDestroyed, ics,
                   attached, queue, exitReq, env, op, res, run, loop, uuidTmp,
                   how, ret, code, counters, history>>

\* auto uuid = androidfrontend->call<createInputContext>("fcitx5-android")
\* (line 146)
InitCreateContext(t) ==
    /\ ~crashed
    /\ pc[t] = "L146"
    /\ IF addonDestroyed[af[t]] > 0
       THEN /\ Undefined(t, "dead androidfrontend", "exec")
            /\ cur' = [cur EXCEPT ![t] = NoItem]
            /\ UNCHANGED <<ics, uuidTmp>>
       ELSE /\ ics' = ics \cup {af[t]}
            /\ uuidTmp' = [uuidTmp EXCEPT ![t] = af[t]]
            /\ pc' = [pc EXCEPT ![t] = "L147"]
            /\ UNCHANGED <<cur, ubLog, crashed>>
    /\ UNCHANGED <<aside, handle, liveInst, liveDisp, addonLoaded, addonDestroyed,
                   attached, queue, callbacks, cbOwner, exitReq, env, op, res,
                   run, loop, af, how, ret, code, counters, history>>

\* p_frontend.reset(androidfrontend)  (line 147): reset deletes the addon
\* p_frontend owned before, if any
InitSetFrontend(t) ==
    /\ ~crashed
    /\ pc[t] = "L147"
    /\ LET after == AddonsAfterDelete(p_frontend)
       IN /\ p_frontend' = af[t]
          /\ addonDestroyed' = after
          /\ IF DoubleDelete(after)
             THEN Undefined(t, "double delete", "L148")
             ELSE /\ pc' = [pc EXCEPT ![t] = "L148"]
                  /\ UNCHANGED <<ubLog, crashed>>
    /\ UNCHANGED <<aside, p_instance, p_dispatcher, p_uuid, liveInst, liveDisp,
                   addonLoaded, ics, attached, queue, callbacks, cbOwner,
                   exitReq, env, locals, counters, history>>

\* p_uuid = uuid  (line 148), the last line of the item
InitSetUuid(t) ==
    /\ ~crashed
    /\ pc[t] = "L148"
    /\ p_uuid' = uuidTmp[t]
    /\ cur' = [cur EXCEPT ![t] = NoItem]
    /\ af' = [af EXCEPT ![t] = Null]
    /\ uuidTmp' = [uuidTmp EXCEPT ![t] = Null]
    /\ pc' = [pc EXCEPT ![t] = "exec"]
    /\ UNCHANGED <<aside, p_instance, p_dispatcher, p_frontend, objects, env, op, res,
                   run, loop, how, ret, code, counters, history,
                   ubLog, crashed>>

\* ----------------------------------------------------- the exit work item
\* p_dispatcher->detach()  (line 180)
ExitDetach(t) ==
    /\ ~crashed
    /\ pc[t] = "L180"
    /\ IF p_dispatcher = Null
       THEN /\ Undefined(t, "null p_dispatcher", "L181")
            /\ UNCHANGED attached
       ELSE /\ attached' = [attached EXCEPT ![p_dispatcher] = Null]
            /\ pc' = [pc EXCEPT ![t] = "L181"]
            /\ UNCHANGED <<ubLog, crashed>>
    /\ UNCHANGED <<aside, handle, liveInst, liveDisp, addonLoaded, addonDestroyed, ics,
                   queue, callbacks, cbOwner, exitReq, env, locals, counters,
                   history>>

\* p_instance->exit()  (line 181), the last line of the item
ExitInstance(t) ==
    /\ ~crashed
    /\ pc[t] = "L181"
    /\ IF p_instance = Null
       THEN /\ Undefined(t, "null p_instance", "exec")
            /\ UNCHANGED exitReq
       ELSE /\ exitReq' = exitReq \cup {p_instance}
            /\ pc' = [pc EXCEPT ![t] = "exec"]
            /\ UNCHANGED <<ubLog, crashed>>
    /\ cur' = [cur EXCEPT ![t] = NoItem]
    /\ UNCHANGED <<aside, handle, liveInst, liveDisp, addonLoaded, addonDestroyed, ics,
                   attached, queue, callbacks, cbOwner, env, op, res, run, loop,
                   af, uuidTmp, how, ret, code, counters, history>>

\* ------------------------- the key, select-candidate and reset work items
\* p_frontend->call<...>(p_uuid, ...)  (lines 193, 203, 213, 229)
FrontendCall(t) ==
    /\ ~crashed
    /\ pc[t] = "L193"
    /\ IF p_frontend = Null \/ addonDestroyed[p_frontend] > 0
       THEN /\ Undefined(t, "dead p_frontend", "exec")
            /\ UNCHANGED frontCalls
       ELSE /\ frontCalls' = frontCalls \cup
                   {[op |-> cur[t].kind, uuid |-> p_uuid, addon |-> p_frontend,
                     by |-> t, item |-> cur[t].id]}
            /\ pc' = [pc EXCEPT ![t] = "exec"]
            /\ UNCHANGED <<ubLog, crashed>>
    /\ cur' = [cur EXCEPT ![t] = NoItem]
    /\ UNCHANGED <<aside, handle, objects, env, op, res, run, loop, af, uuidTmp, how,
                   ret, code, counters, accepted, execCount, execBy, dropped,
                   hostEvents>>


\* the addon delivers a notification whenever a callback is set on it,
\* whether or not its instance's exec() is still running on a thread
Notify_AnyTime(t, n) ==
    /\ ~crashed
    /\ notes < NoteBudget
    /\ notes' = notes + 1
    /\ \E a \in ics :
          /\ n \in callbacks[a]
          /\ hostEvents' = Append(hostEvents, [kind |-> n, addon |-> a, by |-> t])
    /\ UNCHANGED <<aside, handle, objects, env, pc, locals, nextRun, nextItem,
                   startups, calls, accepted, execCount, execBy, dropped,
                   frontCalls, ubLog, crashed>>

\* ----------------------------------------------- the addon's notifications
\* The androidfrontend addon, on the event thread, reports a change of its
\* input context through the callback set for kind n: the callback (lines
\* 100-125) runs in the frame of the startup call that set it and calls
\* handleFcitxEvent(n, ...).  Calling a callback that was never set throws
\* std::bad_function_call out of exec().
Notify(t, n) ==
    /\ ~crashed
    /\ InExec(t)
    /\ loop[t] \in liveInst
    /\ loop[t] \in ics
    /\ addonDestroyed[loop[t]] = 0
    /\ notes < NoteBudget
    /\ notes' = notes + 1
    /\ IF n \notin callbacks[loop[t]]
       THEN /\ how' = [how EXCEPT ![t] = "error"]
            /\ loop' = [loop EXCEPT ![t] = Null]
            /\ cur' = [cur EXCEPT ![t] = NoItem]
            /\ pc' = [pc EXCEPT ![t] = "L53"]
            /\ UNCHANGED <<hostEvents, ubLog, crashed>>
       ELSE IF ~PastCheck(cbOwner[loop[t]])
       THEN /\ Undefined(t, "callback frame gone", pc[t])
            /\ UNCHANGED <<how, loop, cur, hostEvents>>
       ELSE /\ hostEvents' = Append(hostEvents,
                   [kind |-> n, addon |-> loop[t], by |-> t])
            /\ UNCHANGED <<how, loop, cur, pc, ubLog, crashed>>
    /\ UNCHANGED <<aside, handle, objects, env, op, res, run, af, uuidTmp, ret, code,
                   nextRun, nextItem, startups, calls, accepted, execCount,
                   execBy, dropped, frontCalls>>

\* ---------------------------------------- resetGlobalPointers (51-56)
\* p_instance = nullptr  (line 53): destroys the instance
ResetInstance(t) ==
    /\ ~crashed
    /\ pc[t] = "L53"
    /\ LET old == p_instance
           after == AddonsAfterInstance(old)
       IN /\ p_instance' = Null
          /\ liveInst' = liveInst \ {old}
          /\ addonDestroyed' = after
          /\ IF DoubleDelete(after)
             THEN Undefined(t, "double delete", "L54")
             ELSE /\ pc' = [pc EXCEPT ![t] = "L54"]
                  /\ UNCHANGED <<ubLog, crashed>>
    /\ UNCHANGED <<aside, p_dispatcher, p_frontend, p_uuid, liveDisp, addonLoaded, ics,
                   attached, queue, callbacks, cbOwner, exitReq, env, locals,
                   counters, history>>

\* p_dispatcher = nullptr  (line 54): destroys the dispatcher and the work
\* items still in its queue
ResetDispatcher(t) ==
    /\ ~crashed
    /\ pc[t] = "L54"
    /\ LET old == p_dispatcher
       IN /\ p_dispatcher' = Null
          /\ liveDisp' = liveDisp \ {old}
          /\ IF old # Null
             THEN /\ dropped' = dropped \cup IdsOf(queue[old])
                  /\ queue' = [queue EXCEPT ![old] = <<>>]
                  /\ attached' = [attached EXCEPT ![old] = Null]
             ELSE UNCHANGED <<dropped, queue, attached>>
    /\ pc' = [pc EXCEPT ![t] = "L55"]
    /\ UNCHANGED <<aside, p_instance, p_frontend, p_uuid, liveInst, addonLoaded,
                   addonDestroyed, ics, callbacks, cbOwner, exitReq, env, locals,
                   counters, accepted, execCount, execBy, frontCalls, hostEvents,
                   ubLog, crashed>>

\* p_frontend = nullptr  (line 55): p_frontend is a unique_ptr, so this
\* deletes the addon it points to
ResetFrontend(t) ==
    /\ ~crashed
    /\ pc[t] = "L55"
    /\ LET after == AddonsAfterDelete(p_frontend)
       IN /\ p_frontend' = Null
          /\ addonDestroyed' = after
          /\ IF DoubleDelete(after)
             THEN Undefined(t, "double delete", "Lret")
             ELSE /\ pc' = [pc EXCEPT ![t] = "Lret"]
                  /\ UNCHANGED <<ubLog, crashed>>
    /\ UNCHANGED <<aside, p_instance, p_dispatcher, p_uuid, liveInst, liveDisp,
                   addonLoaded, ics, attached, queue, callbacks, cbOwner,
                   exitReq, env, locals, counters, history>>

\* the catch block of std::exception without its return 1: control falls
\* through to return 0
ReturnStatus_ErrorFallsThrough(h, c) ==
    CASE h = "normal" -> c
      [] OTHER -> 0

\* the status startupFcitx returns (lines 154, 160, 163)
ReturnStatus(h, c) ==
    CASE h = "normal" -> c
      [] h = "error" -> 1
      [] OTHER -> 0

\* return code; / return 1; / return 0;
StartupReturn(t) ==
    /\ ~crashed
    /\ pc[t] = "Lret"
    /\ ret' = [ret EXCEPT ![t] = ReturnStatus(how[t], code[t])]
    /\ code' = [code EXCEPT ![t] = Garbage]
    /\ run' = [run EXCEPT ![t] = Null]
    /\ pc' = [pc EXCEPT ![t] = "idle"]
    /\ UNCHANGED <<aside, handle, objects, env, op, res, loop, cur, af, uuidTmp,
                   how, counters, history, ubLog, crashed>>

\* ------------------------------------------- the guarded operations
\* DO_IF_NOT_RUNNING with the wrong default: isInputPanelEmpty answers
\* false when the engine is not running
NotRunning_DefaultFalse(t, o) ==
    /\ pc' = [pc EXCEPT ![t] = "idle"]
    /\ op' = [op EXCEPT ![t] = o]
    /\ res' = [res EXCEPT ![t] = IF o = "isEmpty" THEN "false" ELSE "void"]

\* DO_IF_NOT_RUNNING(expr): jniLog, then return / return true (168-172)
NotRunning(t, o) ==
    /\ pc' = [pc EXCEPT ![t] = "idle"]
    /\ op' = [op EXCEPT ![t] = o]
    /\ res' = [res EXCEPT ![t] = IF o = "isEmpty" THEN "true" ELSE "void"]

\* a host thread calls one of the guarded operations (lines 176-231) and
\* evaluates the first operand of the liveness check: p_instance == nullptr
HostCall(t, o) ==
    /\ ~crashed
    /\ pc[t] = "idle"
    /\ FirstIdle(t)
    /\ calls < CallBudget
    /\ calls' = calls + 1
    /\ IF p_instance = Null
       THEN NotRunning(t, o)
       ELSE /\ pc' = [pc EXCEPT ![t] = "chkD"]
            /\ op' = [op EXCEPT ![t] = o]
            /\ res' = [res EXCEPT ![t] = "none"]
    /\ UNCHANGED <<aside, handle, objects, env, run, loop, cur, af, uuidTmp, how, ret,
                   code, nextRun, nextItem, startups, notes, history, ubLog,
                   crashed>>

\* a later operand of the liveness check (line 167), read on its own: ptr
\* is the global read, at this operand's place and next the place after it
CheckOperand(t, at, ptr, next) ==
    /\ ~crashed
    /\ pc[t] = at
    /\ IF ptr = Null
       THEN NotRunning(t, op[t])
       ELSE /\ pc' = [pc EXCEPT ![t] = next]
            /\ UNCHANGED <<op, res>>
    /\ UNCHANGED <<aside, handle, objects, env, run, loop, cur, af, uuidTmp, how,
                   ret, code, counters, history, ubLog, crashed>>

\* || p_dispatcher == nullptr
CheckDispatcher(t) == CheckOperand(t, "chkD", p_dispatcher, "chkF")
\* || p_frontend == nullptr
CheckFrontend(t) == CheckOperand(t, "chkF", p_frontend, "act")

\* p_dispatcher->schedule(...)  (lines 179, 192, 202, 212, 228)
HostSchedule(t) ==
    /\ ~crashed
    /\ pc[t] = "act"
    /\ op[t] \in SchedOps
    /\ IF p_dispatcher = Null
       THEN /\ Undefined(t, "null p_dispatcher", "idle")
            /\ UNCHANGED <<queue, accepted, nextItem>>
       ELSE /\ Schedule(p_dispatcher, [id |-> nextItem, kind |-> op[t], by |-> t])
            /\ pc' = [pc EXCEPT ![t] = "idle"]
            /\ UNCHANGED <<ubLog, crashed>>
    /\ res' = [res EXCEPT ![t] = "void"]
    /\ UNCHANGED <<aside, handle, liveInst, liveDisp, addonLoaded,
                   addonDestroyed, ics,
                   attached, callbacks, cbOwner, exitReq, env, op, run, loop,
                   cur, af, uuidTmp, how, ret, code, nextRun, startups, calls,
                   notes, execCount, execBy, dropped, frontCalls, hostEvents>>

\* return p_frontend->call<isInputPanelEmpty>(p_uuid)  (line 221), on the
\* calling thread
HostQuery(t) ==
    /\ ~crashed
    /\ pc[t] = "act"
    /\ op[t] = "isEmpty"
    /\ IF p_frontend = Null \/ addonDestroyed[p_frontend] > 0
       THEN /\ Undefined(t, "dead p_frontend", "idle")
            /\ res' = [res EXCEPT ![t] = "undefined"]
            /\ UNCHANGED frontCalls
       ELSE /\ frontCalls' = frontCalls \cup
                   {[op |-> "isEmpty", uuid |-> p_uuid, addon |-> p_frontend,
                     by |-> t, item |-> 0]}
            /\ \E b \in {"true", "false"} : res' = [res EXCEPT ![t] = b]
            /\ pc' = [pc EXCEPT ![t] = "idle"]
            /\ UNCHANGED <<ubLog, crashed>>
    /\ UNCHANGED <<aside, handle, objects, env, op, run, loop, cur, af,
                   uuidTmp, how,
                   ret, code, counters, accepted, execCount, execBy, dropped,
                   hostEvents>>

\* ------------------------------------------------------- specification
\* a step of thread t inside startupFcitx
StarterStep(t) ==
    \/ MakeInstance(t)
    \/ MakeDispatcher(t)
    \/ ScheduleInit(t)
    \/ StartExec(t)
    \/ Dispatch(t)
    \/ ExecReturn(t)
    \/ InitCallbacks(t)
    \/ InitCreateContext(t)
    \/ InitSetFrontend(t)
    \/ InitSetUuid(t)
    \/ ExitDetach(t)
    \/ ExitInstance(t)
    \/ FrontendCall(t)
    \/ ResetInstance(t)
    \/ ResetDispatcher(t)
    \/ ResetFrontend(t)
    \/ StartupReturn(t)

\* a step of thread t inside a guarded operation
HostStep(t) ==
    \/ CheckDispatcher(t)
    \/ CheckFrontend(t)
    \/ HostSchedule(t)
    \/ HostQuery(t)

\* the steps of a process in which one thread at a time is inside exec()
Step ==
    \/ \E t \in Starters :
          \/ StartupCheck(t)
          \/ StarterStep(t)
          \/ ThrowQuietQuit(t)
          \/ ThrowException(t)
          \/ \E n \in Kinds : Notify(t, n)
    \/ \E t \in Hosts :
          \/ \E o \in Ops : HostCall(t, o)
          \/ HostStep(t)

Next == Step \/ \E t \in Starters : LoopGone(t)

Spec == Init /\ [][Next]_vars

\* Progress: the operating system runs every thread that can take a step.
\* Nothing obliges the host to make a call, the engine to throw, or the
\* addon to report a change.
FairSpec ==
    /\ LiveInit
    /\ [][Step]_vars
    /\ \A t \in Starters : WF_vars(StarterStep(t))
    /\ \A t \in Hosts : WF_vars(HostStep(t))

\* --------------------------------------- the four callbacks (lines 100-125)
\* the strings and candidate lists the addon can pass, as byte sequences
Strs == UNION {[1..n -> Chars] : n \in 0..MaxStrLen}
CandidateLists == UNION {[1..n -> Strs] : n \in 0..MaxCands}
\* the notifications, named by the callback parameters of lines 100-120
Notes ==
    {[kind |-> 0, candidateList |-> l] : l \in CandidateLists}
    \cup {[kind |-> 1, str |-> s] : s \in Strs}
    \cup {[kind |-> 2, preedit |-> p, clientPreedit |-> c] : p \in Strs, c \in Strs}
    \cup {[kind |-> 3, auxUp |-> u, auxDown |-> d] : u \in Strs, d \in Strs}

\* std::string::c_str() read as a C string: the bytes before the first NUL
c_str(s) ==
    LET nuls == {k \in 1..Len(s) : s[k] = NUL}
    IN IF nuls = {} THEN s
       ELSE SubSeq(s, 1, (CHOOSE k \in nuls : \A j \in nuls : k <= j) - 1)

\* env->NewStringUTF(bytes): the Java string of a NUL-terminated modified
\* UTF-8 string; each of the bytes 'a' and 'b' is one char of the same value
NewStringUTF(bytes) == [k \in 1..Len(bytes) |-> bytes[k]]

\* env->CallStaticVoidMethod(clazz, handleFcitxEvent, kind, vararg)
CallStaticVoidMethod(kind, args) ==
    /\ received' = Append(received, [kind |-> kind, args |-> args])
    /\ cbpc' = "ret"

\* the first line of the callback set for a notification kind
CallbackLine(kind) ==
    CASE kind = 0 -> "L101"
      [] kind = 1 -> "L110"
      [] kind = 2 -> "L115"
      [] OTHER -> "L121"

\* the addon calls the callback set for the kind of a notification with the
\* notification's payload
AddonFires ==
    /\ cbpc = "idle"
    /\ \E note \in Notes :
          /\ payload' = note
          /\ cbpc' = CallbackLine(note.kind)
    /\ UNCHANGED <<scenario, vararg, argi, received, relay, bridge>>

\* candidateListCallback, lines 101-103: size, NewObjectArray, i = 0
CandidateListNew ==
    /\ cbpc = "L101"
    /\ LET size == Len(payload.candidateList)
       IN /\ vararg' = [k \in 1..size |-> NullRef]
          /\ argi' = 0
          /\ cbpc' = IF size = 0 THEN "L107" ELSE "L104"
    /\ UNCHANGED <<scenario, payload, received, relay, bridge>>

\* preeditCallback with its two SetObjectArrayElement indices exchanged
PreeditCallback_Exchanged ==
    /\ cbpc = "L115"
    /\ CallStaticVoidMethod(2, <<NewStringUTF(c_str(payload.clientPreedit)),
                                 NewStringUTF(c_str(payload.preedit))>>)
    /\ UNCHANGED <<scenario, payload, vararg, argi, relay, bridge>>

\* one turn of the loop of lines 104-106:
\* SetObjectArrayElement(vararg, i++, NewStringUTF(s.c_str()))
CandidateListSet ==
    /\ cbpc = "L104"
    /\ LET s == payload.candidateList[argi + 1]
       IN vararg' = [vararg EXCEPT ![argi + 1] = NewStringUTF(c_str(s))]
    /\ argi' = argi + 1
    /\ cbpc' = IF argi + 1 = Len(payload.candidateList) THEN "L107" ELSE "L104"
    /\ UNCHANGED <<scenario, payload, received, relay, bridge>>

\* line 107: handleFcitxEvent(0, vararg)
CandidateListCall ==
    /\ cbpc = "L107"
    /\ CallStaticVoidMethod(0, vararg)
    /\ UNCHANGED <<scenario, payload, vararg, argi, relay, bridge>>

\* commitStringCallback, lines 110-112: handleFcitxEvent(1, [str])
CommitStringCallback ==
    /\ cbpc = "L110"
    /\ CallStaticVoidMethod(1, <<NewStringUTF(c_str(payload.str))>>)
    /\ UNCHANGED <<scenario, payload, vararg, argi, relay, bridge>>

\* preeditCallback, lines 115-118: handleFcitxEvent(2, [preedit, clientPreedit])
PreeditCallback ==
    /\ cbpc = "L115"
    /\ CallStaticVoidMethod(2, <<NewStringUTF(c_str(payload.preedit)),
                                 NewStringUTF(c_str(payload.clientPreedit))>>)
    /\ UNCHANGED <<scenario, payload, vararg, argi, relay, bridge>>

\* inputPanelAuxCallback, lines 121-124: handleFcitxEvent(3, [auxUp, auxDown])
InputPanelAuxCallback ==
    /\ cbpc = "L121"
    /\ CallStaticVoidMethod(3, <<NewStringUTF(c_str(payload.auxUp)),
                                 NewStringUTF(c_str(payload.auxDown))>>)
    /\ UNCHANGED <<scenario, payload, vararg, argi, relay, bridge>>

\* the closing brace of a callback (lines 108, 113, 119, 125): it returns
\* to the addon and its locals are gone
CallbackReturn ==
    /\ cbpc = "ret"
    /\ cbpc' = "idle"
    /\ payload' = NoNote
    /\ vararg' = <<>>
    /\ argi' = 0
    /\ received' = <<>>
    /\ UNCHANGED <<scenario, relay, bridge>>

MarshalNext ==
    \/ AddonFires
    \/ CallbackReturn
    \/ CandidateListNew
    \/ CandidateListSet
    \/ CandidateListCall
    \/ CommitStringCallback
    \/ PreeditCallback
    \/ InputPanelAuxCallback

MarshalSpec == MarshalInit /\ [][MarshalNext]_vars

\* ------------------------------------------- the log relay (lines 14-40)
\* a write to stdout or stderr puts a byte into the pipe (lines 34-36); the
\* relay may read between any two bytes, so a write of several bytes is
\* several of these steps
Write(b) ==
    /\ Len(written) < MaxStream
    /\ written' = Append(written, b)
    /\ pipe' = Append(pipe, b)
    /\ UNCHANGED <<scenario, marshal, logSink, bridge>>

\* one turn of logger_thread's loop (lines 20-24): read() returns n bytes,
\* at most sizeof buf - 1; a '\n' in the last place is dropped; the buffer
\* goes to __android_log_write as one entry
LoggerRead(n) ==
    /\ n \in 1..Min(Len(pipe), BufSize - 1)
    /\ LET buf == SubSeq(pipe, 1, n)
           read_size == IF buf[n] = NL THEN n - 1 ELSE n
       IN logSink' = Append(logSink, SubSeq(buf, 1, read_size))
    /\ pipe' = SubSeq(pipe, n + 1, Len(pipe))
    /\ UNCHANGED <<scenario, marshal, written, bridge>>

RelayNext ==
    \/ \E b \in LogBytes : Write(b)
    \/ \E n \in 1..MaxStream : LoggerRead(n)

RelaySpec == RelayInit /\ [][RelayNext]_vars

\* --------------------------------------------------------------- claims
\* the three pointer fields of the handle are unset
PointersUnset == p_instance = Null /\ p_dispatcher = Null /\ p_frontend = Null
\* all four fields of the handle are unset / are set
HandleUnset == PointersUnset /\ p_uuid = Null
HandleSet ==
    p_instance # Null /\ p_dispatcher # Null /\ p_frontend # Null /\ p_uuid # Null
\* this step is a step of a guarded operation (each of them reads the handle)
GuardedStep == calls' # calls \/ \E t \in Hosts : pc'[t] # pc[t]
\* no exception has escaped exec() so far
NoThrow == \A t \in Starters : how[t] \notin {"quiet", "error"}
\* the host calls startupFcitx from one thread only
OneStarter == scenario # "race"
\* nothing undefined has happened: no undefined step was taken, and no
\* instance was destroyed while a thread was inside its exec()
NoUbYet == ubLog = NoUb /\ \A u \in Starters : InExec(u) => loop[u] \in liveInst
\* the work items that call the frontend
FrontendKinds == {"keyS", "keyC", "select", "reset"}

\* C1: a guarded operation never dereferences p_dispatcher or p_frontend
\* after resetGlobalPointers has cleared or destroyed it: no undefined
\* behaviour ever happens on a host thread (stated for a host that calls
\* startupFcitx from one thread, which is enough to refute it).
C1_NoUseAfterReset == OneStarter => ubLog[1] \notin Hosts

\* C2: whenever a guarded operation reads the handle, the four fields are
\* all set or all unset (stated for a host that calls startupFcitx from one
\* thread).
C2_HandleNeverPartial ==
    [][OneStarter /\ GuardedStep => HandleSet \/ HandleUnset]_vars

\* C3: at most one startup call is past the already-running check and not
\* yet returned, and at most one instance exists.
C3_AtMostOneStartup ==
    /\ Cardinality({t \in Starters : PastCheck(t)}) <= 1
    /\ Cardinality(liveInst) <= 1

\* C4: a startup call made while another startup call is still running
\* returns 2 and leaves the handle, the environment, the callbacks and the
\* work queues as they were.
C4_SecondStartupRejected ==
    [][(startups' # startups /\ \E u \in Starters : PastCheck(u))
        => /\ \E t \in Starters :
                pc[t] = "idle" /\ pc'[t] = "idle" /\ ret'[t] = 2
           /\ UNCHANGED <<handle, env, callbacks, queue>>]_vars

\* C5: a guarded operation called while the handle's pointers are unset is
\* a no-op: it returns at once, schedules no work item, changes no handle
\* field and does not call the frontend, and isInputPanelEmpty returns true.
C5_NotRunningIsNoOp ==
    [][(calls' # calls /\ PointersUnset)
        => /\ pc' = pc
           /\ UNCHANGED <<handle, queue, accepted, nextItem, frontCalls>>
           /\ \E t \in Hosts :
                /\ pc[t] = "idle"
                /\ res'[t] = IF op'[t] = "isEmpty" THEN "true" ELSE "void"
                /\ \A u \in Hosts \ {t} : op'[u] = op[u] /\ res'[u] = res[u]]_vars

\* C5's case: after a run ended, isInputPanelEmpty was called and returned
\* true, and the frontend was never called.
C5_Witness ==
    /\ \E s \in Starters : pc[s] = "idle" /\ how[s] \in {"quiet", "error"}
    /\ PointersUnset
    /\ \E t \in Hosts : pc[t] = "idle" /\ op[t] = "isEmpty" /\ res[t] = "true"
    /\ frontCalls = {}
    /\ accepted = {1}
    /\ ubLog = NoUb

\* C6: every work item schedule() accepted is executed exactly once, none
\* is dropped or executed twice (stated for the behaviours in which one
\* thread calls startupFcitx, no exception escapes exec() and nothing
\* undefined happened before: the runs end by exitFcitx).
C6_AcceptedExecutedOnce ==
    [][OneStarter /\ NoThrow /\ NoUbYet =>
          /\ dropped' = dropped
          /\ \A i \in ItemIds : execCount'[i] <= 1
          /\ \A i \in ItemIds : execCount'[i] = 1 => i \in accepted]_vars

\* C7: exitFcitx called while a startup call is in progress leads to the
\* exit item running, exec() returning and the handle being unset (or to
\* the process dying).
C7_ExitLeadsToTeardown ==
    (\E h \in Hosts : op[h] = "exit" /\ pc[h] = "chkD")
        ~> (crashed \/ (PointersUnset /\ \A s \in Starters : pc[s] = "idle"))

\* C8: at the moment a startup call that passed the check returns, all four
\* fields of the handle are unset (stated for a host that calls
\* startupFcitx from one thread).
C8_UnsetAtReturn ==
    [][\A t \in Starters :
          (OneStarter /\ pc[t] = "Lret" /\ pc'[t] = "idle") => HandleUnset]_vars

\* C9: 2 is returned only by a rejected call, 1 only when an exception
\* other than quiet quit escaped, and a quiet quit yields 0.
C9_StatusIdentifiesEnding ==
    \A t \in Starters :
        (pc[t] = "idle" /\ ret[t] # NoStatus) =>
            /\ ret[t] = 2 => how[t] = "rejected"
            /\ ret[t] = 1 => how[t] = "error"
            /\ how[t] = "quiet" => ret[t] = 0

\* C9 as amended: a rejected call returns 2, an exception other than quiet
\* quit gives 1, a quiet quit gives 0, and a normal return of exec() gives
\* the code exec() returned, whatever it is.
C9_EndingDecidesStatus ==
    [][\A t \in Starters :
          ret'[t] # ret[t] /\ ret'[t] # NoStatus =>
              /\ how'[t] = "rejected" => ret'[t] = 2 /\ pc[t] = "idle"
              /\ how'[t] = "error" => ret'[t] = 1 /\ pc[t] = "Lret"
              /\ how'[t] = "quiet" => ret'[t] = 0 /\ pc[t] = "Lret"
              /\ how'[t] = "normal" => ret'[t] = code[t] /\ pc[t] = "Lret"
              /\ how'[t] \in {"rejected", "error", "quiet", "normal"}]_vars

\* C9's case: exec() returned 2 itself and startupFcitx returned it
C9_Witness ==
    \E t \in Starters : pc[t] = "idle" /\ how[t] = "normal" /\ ret[t] = 2

\* C10: no key, select-candidate or reset item starts executing, and no
\* notification is produced, on an event thread whose instance's frontend
\* has any of the four callbacks unset (stated for the behaviours in which
\* nothing undefined happened before).
C10_CallbacksBeforeEvents ==
    [][\A t \in Starters :
          /\ (NoUbYet /\ cur'[t] # cur[t] /\ cur'[t].kind \in FrontendKinds)
                => callbacks[loop[t]] = Kinds
          /\ (NoUbYet /\ notes' # notes /\ InExec(t))
                => callbacks[loop[t]] = Kinds]_vars


Strings(note) ==
    CASE note.kind = 0 -> note.candidateList
      [] note.kind = 1 -> <<note.str>>
      [] note.kind = 2 -> <<note.preedit, note.clientPreedit>>
      [] OTHER -> <<note.auxUp, note.auxDown>>
\* a callback is about to return to the addon
Delivered == cbpc = "ret"
NulFree(s) == \A k \in 1..Len(s) : s[k] # NUL
IsPrefix(a, b) == Len(a) <= Len(b) /\ \A k \in 1..Len(a) : a[k] = b[k]

C13_SubmissionOrder ==
    [][\A t \in Starters :
          (cur'[t] # cur[t] /\ cur'[t].kind \in FrontendKinds) =>
              \A d \in Ids : \A k \in 1..Len(queue'[d]) :
                  (queue'[d][k].by = cur'[t].by
                   /\ queue'[d][k].kind \in FrontendKinds)
                      => queue'[d][k].id > cur'[t].id]_vars

\* C13's case: the event thread executes an item of a host thread while a
\* later item of the same thread waits in the queue
C13_Witness ==
    \E t \in Starters : \E d \in Ids :
        /\ cur[t].by \in Hosts
        /\ cur[t].kind \in FrontendKinds
        /\ queue[d] # <<>>
        /\ Head(queue[d]).by = cur[t].by
        /\ Head(queue[d]).kind \in FrontendKinds
        /\ Head(queue[d]).id > cur[t].id


\* the lines of a byte stream: the bytes between its newlines, the rest
\* after the last newline left out
RECURSIVE Lines(_)
Lines(s) ==
    LET nls == {k \in 1..Len(s) : s[k] = NL}
    IN IF nls = {} THEN <<>>
       ELSE LET first == CHOOSE k \in nls : \A j \in nls : k <= j
            IN <<SubSeq(s, 1, first - 1)>> \o Lines(SubSeq(s, first + 1, Len(s)))

\* C14: however the reads cut the stream, every newline-terminated line
\* is forwarded exactly once, as its own entry, without its newline: once
\* the relay has read a stream that ends with a newline, the log holds the
\* stream's lines, one entry each, in order.
C14_LinesForwardedOnce ==
    (pipe = <<>> /\ written # <<>> /\ written[Len(written)] = NL)
        => logSink = Lines(written)


\* C15: no guarded operation calls schedule on a dispatcher that was
\* detached by the exit item: when a host thread calls schedule on the
\* dispatcher p_dispatcher points to, that dispatcher is attached to an
\* event loop (stated for a host that calls startupFcitx from one thread,
\* in the behaviours in which nothing undefined happened before).
C15_NoScheduleAfterDetach ==
    [][(/\ OneStarter /\ NoUbYet
        /\ \E h \in Hosts :
              pc[h] = "act" /\ pc'[h] = "idle" /\ op[h] \in SchedOps
        /\ p_dispatcher \in liveDisp)
        => attached[p_dispatcher] # Null]_vars

\* C16: every call to the frontend made for a guarded operation is made by
\* a work item on an event thread, none directly by a host call thread.
C16_FrontendOnlyFromItems ==
    \A c \in frontCalls : c.by \in Starters /\ c.item # 0

\* C17: the frontend addon of a run is destroyed once, by the destruction of
\* its instance; clearing p_frontend never deletes it a second time.
C17_AddonDestroyedOnce ==
    \A r \in Ids : addonDestroyed[r] <= 1

\* C18: every call a guarded operation makes to the frontend passes the
\* context id createInputContext returned on that frontend in the current
\* run, never the default value or the id of an earlier run (stated for a
\* host that calls startupFcitx from one thread).
C18_CurrentContextId ==
    OneStarter => \A c \in frontCalls : c.uuid = c.addon

====
